---- MODULE Spec2Model ----
(***************************************************************************)
(* LRUCache<K, V> of src/src/lib.rs: a HashMap `storage`, a LinkedList of  *)
(* keys `order` (front = most recently used) and a fixed `capacity`, with  *)
(* the operations new, insert and get.                                     *)
(***************************************************************************)
EXTENDS Integers, Sequences, FiniteSets, TLC

\* Bounds of the model.
MaxCap == 3
NumKeys == 4
NumVals == 2

Keys == 1..NumKeys
Values == 1..NumVals

\* Option<T>: None and Some(x); Panic is the outcome of unwrap() on None.
None == [tag |-> "None", val |-> 0]
Some(x) == [tag |-> "Some", val |-> x]
Panic == [tag |-> "Panic", val |-> 0]

\* HashMap<K, V>: a function whose domain is the set of stored keys.
EmptyMap == [k \in {} |-> 0]
\* An insert that keeps the value of a key already stored.
hm_insert_keeps_old(m, key, value) ==
    [k \in (DOMAIN m) \cup {key} |->
        IF k \in DOMAIN m THEN m[k] ELSE value]
hm_insert(m, key, value) ==
    [k \in (DOMAIN m) \cup {key} |-> IF k = key THEN value ELSE m[k]]
hm_remove(m, key) == [k \in (DOMAIN m) \ {key} |-> m[k]]
hm_get(m, key) == IF key \in DOMAIN m THEN Some(m[key]) ELSE None

\* LinkedList<K>: a sequence, element 1 is the front.
contains(l, x) == \E i \in 1..Len(l) : l[i] = x
\* push_back in the place of push_front.
push_front_at_back(l, x) == l \o <<x>>
push_front(l, x) == <<x>> \o l
pop_back(l) ==
    IF Len(l) = 0
    THEN [list |-> l, item |-> None]
    ELSE [list |-> SubSeq(l, 1, Len(l) - 1), item |-> Some(l[Len(l)])]
pop_front(l) ==
    IF Len(l) = 0
    THEN [list |-> l, item |-> None]
    ELSE [list |-> SubSeq(l, 2, Len(l)), item |-> Some(l[1])]
\* split_off(at): the list keeps [0, at), the result holds [at, len).
split_off(l, at) ==
    [head |-> SubSeq(l, 1, at), tail |-> SubSeq(l, at + 1, Len(l))]

\* The enumerate() loop: the 0-based index of the first element equal to key.
found_index(l, key) ==
    IF contains(l, key)
    THEN Some(CHOOSE i \in 0..(Len(l) - 1) :
                 /\ l[i + 1] = key
                 /\ \A j \in 0..(i - 1) : l[j + 1] # key)
    ELSE None

\* move_to_front without `splitted_from_found.pop_front()`.
move_to_front_keeps_old(l, key) ==
    LET idx == found_index(l, key)
    IN  IF idx = None
        THEN [ok |-> FALSE, list |-> l]
        ELSE LET parts == split_off(l, idx.val)
             IN  [ok |-> TRUE, list |-> <<key>> \o parts.head \o parts.tail]

\* move_to_front appending the two parts in the wrong order.
move_to_front_swapped(l, key) ==
    LET idx == found_index(l, key)
    IN  IF idx = None
        THEN [ok |-> FALSE, list |-> l]
        ELSE LET parts == split_off(l, idx.val)
                 splitted_from_found == pop_front(parts.tail).list
             IN  [ok |-> TRUE,
                  list |-> <<key>> \o splitted_from_found \o parts.head]

\* The body of `if self.order.contains(&key)`: the new value of self.order.
\* ok is FALSE when found_index.unwrap() fails.
move_to_front(l, key) ==
    LET idx == found_index(l, key)
    IN  IF idx = None
        THEN [ok |-> FALSE, list |-> l]
        ELSE LET parts == split_off(l, idx.val)
                 splitted_from_found == pop_front(parts.tail).list
                 rest == parts.head \o splitted_from_found
                 updated_list == push_front(<< >>, key)
             IN  [ok |-> TRUE, list |-> updated_list \o rest]

\* The capacity test with <= for <.
below_capacity_off_by_one(l, cap) == Len(l) <= cap

\* The capacity test leaving one slot unused.
below_capacity_strict(l, cap) == Len(l) + 1 < cap

\* The condition of insert's first if.
below_capacity(l, cap) == Len(l) < cap

\* evict without `self.storage.remove(..)`.
evict_order_only(m, l) ==
    LET evicted == pop_back(l)
    IN  IF evicted.item = None
        THEN [ok |-> FALSE, storage |-> m, order |-> evicted.list]
        ELSE [ok |-> TRUE, storage |-> m, order |-> evicted.list]

\* evict with pop_front for pop_back.
evict_front(m, l) ==
    LET evicted == pop_front(l)
    IN  IF evicted.item = None
        THEN [ok |-> FALSE, storage |-> m, order |-> evicted.list]
        ELSE [ok |-> TRUE,
              storage |-> hm_remove(m, evicted.item.val),
              order |-> evicted.list]

\* evict going on when pop_back() gave None, without unwrap().
evict_lenient(m, l) ==
    LET evicted == pop_back(l)
    IN  IF evicted.item = None
        THEN [ok |-> TRUE, storage |-> m, order |-> evicted.list]
        ELSE [ok |-> TRUE,
              storage |-> hm_remove(m, evicted.item.val),
              order |-> evicted.list]

\* The else branch of insert's first if: pop the back, remove it from storage.
evict(m, l) ==
    LET evicted == pop_back(l)
    IN  IF evicted.item = None
        THEN [ok |-> FALSE, storage |-> m, order |-> evicted.list]
        ELSE [ok |-> TRUE,
              storage |-> hm_remove(m, evicted.item.val),
              order |-> evicted.list]

\* touch with a new key pushed to the back.
touch_back(l, key) ==
    IF contains(l, key)
    THEN move_to_front(l, key)
    ELSE [ok |-> TRUE, list |-> l \o <<key>>]

\* The second if of insert: the key goes to the front of the list.
touch(l, key) ==
    IF contains(l, key)
    THEN move_to_front(l, key)
    ELSE [ok |-> TRUE, list |-> push_front(l, key)]

\* new leaving the capacity at its default.
new_ignores_capacity(cap) ==
    [storage |-> EmptyMap, order |-> << >>, capacity |-> 0]

new(cap) == [storage |-> EmptyMap, order |-> << >>, capacity |-> cap]

\* insert returning the popped key (None when nothing was popped).
insert_returns_evicted(self, key, value) ==
    LET popped == pop_back(self.order)
        first ==
            IF below_capacity(self.order, self.capacity)
            THEN [ok |-> TRUE, storage |-> self.storage, order |-> self.order]
            ELSE evict(self.storage, self.order)
    IN  IF ~first.ok
        THEN [storage |-> first.storage, order |-> first.order,
              capacity |-> self.capacity, ret |-> Panic]
        ELSE [storage |-> hm_insert(first.storage, key, value),
              order |-> touch(first.order, key).list,
              capacity |-> self.capacity,
              ret |-> IF below_capacity(self.order, self.capacity)
                      THEN None ELSE popped.item]

insert(self, key, value) ==
    LET first ==
            IF below_capacity(self.order, self.capacity)
            THEN [ok |-> TRUE, storage |-> self.storage, order |-> self.order]
            ELSE evict(self.storage, self.order)
    IN  IF ~first.ok
        THEN [storage |-> first.storage, order |-> first.order,
              capacity |-> self.capacity, ret |-> Panic]
        ELSE LET stored == hm_insert(first.storage, key, value)
                 moved == touch(first.order, key)
             IN  IF ~moved.ok
                 THEN [storage |-> stored, order |-> moved.list,
                       capacity |-> self.capacity, ret |-> Panic]
                 ELSE [storage |-> stored, order |-> moved.list,
                       capacity |-> self.capacity, ret |-> Some(key)]

\* get treating a miss as a touch of the key.
get_touches_on_miss(self, key) ==
    IF contains(self.order, key)
    THEN [storage |-> self.storage,
          order |-> move_to_front(self.order, key).list,
          capacity |-> self.capacity, ret |-> hm_get(self.storage, key)]
    ELSE [storage |-> self.storage, order |-> push_front(self.order, key),
          capacity |-> self.capacity, ret |-> None]

\* get taking the value out of storage.
get_removes(self, key) ==
    IF contains(self.order, key)
    THEN [storage |-> hm_remove(self.storage, key),
          order |-> move_to_front(self.order, key).list,
          capacity |-> self.capacity, ret |-> hm_get(self.storage, key)]
    ELSE [storage |-> self.storage, order |-> self.order,
          capacity |-> self.capacity, ret |-> None]

\* get returning the value without moving the key.
get_peek(self, key) ==
    IF contains(self.order, key)
    THEN [storage |-> self.storage, order |-> self.order,
          capacity |-> self.capacity, ret |-> hm_get(self.storage, key)]
    ELSE [storage |-> self.storage, order |-> self.order,
          capacity |-> self.capacity, ret |-> None]

get(self, key) ==
    IF contains(self.order, key)
    THEN LET moved == move_to_front(self.order, key)
         IN  IF ~moved.ok
             THEN [storage |-> self.storage, order |-> moved.list,
                   capacity |-> self.capacity, ret |-> Panic]
             ELSE [storage |-> self.storage, order |-> moved.list,
                   capacity |-> self.capacity,
                   ret |-> hm_get(self.storage, key)]
    ELSE [storage |-> self.storage, order |-> self.order,
          capacity |-> self.capacity, ret |-> None]

VARIABLES storage, order, capacity, last, written, distinct_inserts, recency

vars ==
    <<storage, order, capacity, last, written, distinct_inserts, recency>>

\* The cache as the struct of its three fields.
self == [storage |-> storage, order |-> order, capacity |-> capacity]

\* The call that produced the current state: its arguments, its result and
\* the fields of the cache when it was called.
Call(op, key, value, ret) ==
    [op |-> op, key |-> key, value |-> value, ret |-> ret,
     pre_storage |-> storage, pre_order |-> order,
     pre_capacity |-> capacity, pre_recency |-> recency]

\* written[k] is the value of the most recent insert(k, _), 0 when there was
\* none. It is kept while k is in either field of the cache r: a key in
\* neither can only come back by an insert(k, _), which sets written[k] anew.
Remember(w, r) ==
    [k \in Keys |->
        IF k \in DOMAIN r.storage \/ contains(r.order, k) THEN w[k] ELSE 0]

\* recency lists keys by their last touch, the latest first; a touch of k is
\* an insert(k, _) that returned or a get(k) that returned a value. As for
\* written, a key is kept while it is in either field of the cache r.
Recent(rec, touched, key, r) ==
    LET moved ==
            IF touched
            THEN <<key>> \o SelectSeq(rec, LAMBDA x : x # key)
            ELSE rec
    IN  SelectSeq(moved,
                  LAMBDA x : x \in DOMAIN r.storage \/ contains(r.order, x))

Init ==
    \E cap \in 0..MaxCap :
        /\ storage = new(cap).storage
        /\ order = new(cap).order
        /\ capacity = new(cap).capacity
        /\ last = [op |-> "new", key |-> 0, value |-> 0, ret |-> None,
                   pre_storage |-> EmptyMap, pre_order |-> << >>,
                   pre_capacity |-> cap, pre_recency |-> << >>]
        /\ written = [k \in Keys |-> 0]
        /\ distinct_inserts = [ok |-> TRUE, keys |-> << >>]
        /\ recency = << >>

Insert ==
    \E key \in Keys, value \in Values :
        \E r \in {insert(self, key, value)} :
            /\ storage' = r.storage
            /\ order' = r.order
            /\ capacity' = r.capacity
            /\ last' = Call("insert", key, value, r.ret)
            /\ written' = Remember([written EXCEPT ![key] = value], r)
            /\ distinct_inserts' =
                   IF /\ distinct_inserts.ok
                      /\ r.ret # Panic
                      /\ ~contains(distinct_inserts.keys, key)
                   THEN [ok |-> TRUE,
                         keys |-> Append(distinct_inserts.keys, key)]
                   ELSE [ok |-> FALSE, keys |-> << >>]
            /\ recency' = Recent(recency, r.ret # Panic, key, r)

Get ==
    \E key \in Keys :
        \E r \in {get(self, key)} :
            /\ storage' = r.storage
            /\ order' = r.order
            /\ capacity' = r.capacity
            /\ last' = Call("get", key, 0, r.ret)
            /\ written' = Remember(written, r)
            /\ distinct_inserts' = [ok |-> FALSE, keys |-> << >>]
            /\ recency' = Recent(recency, r.ret.tag = "Some", key, r)

Next == Insert \/ Get

Spec == Init /\ [][Next]_vars

(***************************************************************************)
(* Properties.                                                             *)
(***************************************************************************)
KeysOf(l) == {l[i] : i \in 1..Len(l)}
Without(l, key) == SelectSeq(l, LAMBDA x : x # key)
InsertDone == last.op = "insert" /\ last.ret # Panic
WasPresent == contains(last.pre_order, last.key)
WasFull == Len(last.pre_order) = last.pre_capacity

\* C1: with capacity >= 1, in every reachable state the set of keys of
\* storage is exactly the set of keys of order.
C1_KeySetsEqual == capacity >= 1 => DOMAIN storage = KeysOf(order)
\* An insert of a new key into a full cache has evicted a key.
C1_Witness ==
    /\ capacity >= 2 /\ InsertDone /\ WasFull /\ ~WasPresent
    /\ DOMAIN storage = KeysOf(order)
    /\ DOMAIN storage # DOMAIN last.pre_storage

\* C2: with capacity >= 1, in every reachable state the length of order and
\* the size of storage are at most capacity.
C2_CapacityBound ==
    capacity >= 1 =>
        /\ Len(order) <= capacity
        /\ Cardinality(DOMAIN storage) <= capacity
\* An insert was made into a cache that was already full.
C2_Witness ==
    /\ capacity >= 1 /\ InsertDone /\ WasFull
    /\ Len(order) = capacity

\* C3: in every reachable state no key occurs more than once in order.
C3_NoDuplicates ==
    \A i, j \in 1..Len(order) : order[i] = order[j] => i = j
\* A key that was in the list, behind the front, has been moved to the front.
C3_Witness ==
    /\ last.op \in {"insert", "get"} /\ last.ret # Panic /\ WasPresent
    /\ Len(last.pre_order) >= 3
    /\ last.pre_order[1] # last.key
    /\ Len(order) = Len(last.pre_order)

\* C4: insert(k, v) of a key k already present sets the stored value of k to
\* v, moves k to the front keeping the relative order of the other keys, and
\* leaves the number of cached entries unchanged (also in a full cache).
C4_UpdateInPlace ==
    (InsertDone /\ WasPresent) =>
        /\ last.key \in DOMAIN storage
        /\ storage[last.key] = last.value
        /\ order = <<last.key>> \o Without(last.pre_order, last.key)
        /\ Len(order) = Len(last.pre_order)
        /\ Cardinality(DOMAIN storage) = Cardinality(DOMAIN last.pre_storage)

\* C5: insert(k, v) drops a cached entry only when k is new and the cache is
\* full, and then exactly one; otherwise every other key that was present is
\* still present and a get on it returns its unchanged value.
C5_DropsOnlyNewAtCapacity ==
    InsertDone =>
        LET dropped == (DOMAIN last.pre_storage) \ (DOMAIN storage)
            newAtCapacity == ~WasPresent /\ WasFull
        IN  /\ dropped # {} => newAtCapacity
            /\ newAtCapacity => Cardinality(dropped) = 1
            /\ ~newAtCapacity =>
                   \A k \in (DOMAIN last.pre_storage) \ {last.key} :
                       /\ k \in DOMAIN storage
                       /\ contains(order, k)
                       /\ get(self, k).ret = Some(last.pre_storage[k])

\* C6: with capacity c >= 1, after inserts of c+1 pairwise distinct keys
\* k1..k(c+1) into a fresh cache and no get, k1 is absent, k2..k(c+1) are in
\* storage and in order, the size is c and k(c+1) is at the front.
C6_EvictionLaw ==
    (/\ capacity >= 1
     /\ distinct_inserts.ok
     /\ Len(distinct_inserts.keys) = capacity + 1) =>
        LET ks == distinct_inserts.keys
        IN  /\ ks[1] \notin DOMAIN storage
            /\ ~contains(order, ks[1])
            /\ \A i \in 2..(capacity + 1) :
                   ks[i] \in DOMAIN storage /\ contains(order, ks[i])
            /\ Len(order) = capacity
            /\ Cardinality(DOMAIN storage) = capacity
            /\ order[1] = ks[capacity + 1]
\* capacity + 1 distinct keys have been inserted into a fresh cache of
\* capacity MaxCap.
C6_Witness ==
    /\ capacity = MaxCap /\ capacity >= 2
    /\ distinct_inserts.ok
    /\ Len(distinct_inserts.keys) = capacity + 1
    /\ ~contains(order, distinct_inserts.keys[1])

\* C7: get(k) of a present key k moves k to the front, keeps the relative
\* order of the other keys and the length of order, and leaves storage (keys
\* and values) unchanged.
C7_GetHitFrame ==
    (last.op = "get" /\ WasPresent) =>
        /\ last.ret # Panic
        /\ order = <<last.key>> \o Without(last.pre_order, last.key)
        /\ Len(order) = Len(last.pre_order)
        /\ storage = last.pre_storage
\* A get has hit a key that had a key before it and a key after it.
C7_Witness ==
    /\ last.op = "get" /\ WasPresent
    /\ Len(last.pre_order) >= 3
    /\ last.pre_order[2] = last.key
    /\ order # last.pre_order

\* C8: get(k) of a key k that is not present returns None and leaves
\* storage, order and capacity as they were.
C8_GetMissFrame ==
    (last.op = "get" /\ ~WasPresent) =>
        /\ last.ret = None
        /\ storage = last.pre_storage
        /\ order = last.pre_order
        /\ capacity = last.pre_capacity
\* A get has missed on a cache that holds other keys.
C8_Witness ==
    /\ last.op = "get" /\ ~WasPresent
    /\ Len(last.pre_order) >= 2
    /\ last.ret = None

\* C9: for every key k, get(k) returns Some(v) exactly when k is in order,
\* and then v is the value of the most recent insert(k, _).
C9_GetReturnsLastWritten ==
    \A k \in Keys :
        /\ contains(order, k) => written[k] \in Values
        /\ get(self, k).ret =
               (IF contains(order, k) THEN Some(written[k]) ELSE None)
\* An insert has replaced the value of a present key by another value, and
\* get returns the new one.
C9_Witness ==
    /\ InsertDone /\ WasPresent
    /\ last.key \in DOMAIN last.pre_storage
    /\ last.pre_storage[last.key] # last.value
    /\ get(self, last.key).ret = Some(last.value)

\* C10: after every insert(k, v) that returned, on a cache of capacity >= 1,
\* k is the front of order and storage maps k to v.
C10_InsertedAtFront ==
    (InsertDone /\ capacity >= 1) =>
        /\ Len(order) >= 1
        /\ order[1] = last.key
        /\ last.key \in DOMAIN storage
        /\ storage[last.key] = last.value
\* An insert of a new key into a cache that held other keys.
C10_Witness ==
    /\ InsertDone /\ capacity >= 1 /\ ~WasPresent
    /\ Len(last.pre_order) >= 1
    /\ order[1] = last.key

\* The cache after a call that gave the result r.
After(r) == [storage |-> r.storage, order |-> r.order, capacity |-> r.capacity]

\* C11: every insert(k, v) that returns, returns Some(k): for a new key below
\* capacity, for a new key with eviction and for a present key; never None
\* and never the evicted key.
C11_InsertReturnsKey ==
    InsertDone => last.ret = Some(last.key)
\* An insert has evicted a key other than the one it returned.
C11_Witness ==
    /\ InsertDone /\ WasFull /\ ~WasPresent /\ capacity >= 1
    /\ last.pre_order[Len(last.pre_order)] # last.key
    /\ last.ret = Some(last.key)

\* C12: for every key k, present or not, a second get(k) right after a first
\* one leaves storage, order and capacity as the first left them, and both
\* return the same result.
C12_GetTwice ==
    \A k \in Keys :
        LET first == get(self, k)
            second == get(After(first), k)
        IN  /\ After(second) = After(first)
            /\ second.ret = first.ret
\* A get has moved a key from behind the front; the same get once more
\* changes nothing.
C12_Witness ==
    /\ last.op = "get" /\ WasPresent
    /\ last.pre_order[1] # last.key
    /\ get(self, last.key).order = order
    /\ get(self, last.key).ret = last.ret

\* C13: with capacity >= 1 no insert and no get fails: the popped back is
\* Some whenever it is unwrapped, and found_index is Some whenever it is
\* unwrapped.
C13_NoPanic ==
    capacity >= 1 =>
        /\ last.ret # Panic
        /\ ~below_capacity(order, capacity) => pop_back(order).item # None
        /\ \A k \in Keys :
               contains(order, k) => found_index(order, k) # None
\* The eviction branch and the move to the front have both run.
C13_Witness ==
    /\ capacity >= 2 /\ InsertDone /\ WasFull /\ WasPresent
    /\ last.pre_order[1] # last.key

\* C14: new(0) is accepted; on that cache every insert fails in the eviction
\* branch with storage and order untouched, so the cache never holds an
\* entry and every get returns None.
C14_CapacityZero ==
    capacity = 0 =>
        /\ storage = EmptyMap
        /\ order = << >>
        /\ last.op = "insert" => last.ret = Panic
        /\ last.op = "get" => last.ret = None
        /\ \A k \in Keys :
               /\ get(self, k).ret = None
               /\ \A v \in Values :
                      /\ insert(self, k, v).ret = Panic
                      /\ After(insert(self, k, v)) = self
\* An insert into a cache of capacity 0 has failed.
C14_Witness ==
    /\ capacity = 0 /\ last.op = "insert" /\ last.ret = Panic
    /\ Len(order) = 0

\* C15: new(c) gives an empty storage, an empty order and capacity c, and no
\* insert and no get changes the capacity.
C15_CapacityFixed ==
    /\ (/\ last.op = "new"
        /\ storage = EmptyMap
        /\ order = << >>
        /\ capacity = last.pre_capacity)
    /\ [][capacity' = capacity]_vars
\* Calls of both kinds have been made on a full cache of capacity MaxCap.
C15_Witness ==
    /\ capacity = MaxCap /\ last.pre_capacity = MaxCap
    /\ last.op = "get" /\ WasPresent
    /\ Len(order) = capacity

Reverse(l) == [i \in 1..Len(l) |-> l[Len(l) + 1 - i]]
WasBelow == Len(last.pre_order) < last.pre_capacity

\* C16: insert(k, v) of a key k that is not present, into a cache whose order
\* is as long as its capacity (>= 1), removes exactly the back key from
\* order and from storage, stores k with v and puts k at the front; every
\* other key keeps its value and its relative position, and the size stays
\* equal to the capacity.
C16_EvictsBack ==
    (InsertDone /\ ~WasPresent /\ WasFull /\ capacity >= 1) =>
        LET n == Len(last.pre_order)
            back == last.pre_order[n]
        IN  /\ order = <<last.key>> \o SubSeq(last.pre_order, 1, n - 1)
            /\ DOMAIN storage =
                   ((DOMAIN last.pre_storage) \ {back}) \cup {last.key}
            /\ back \notin DOMAIN storage
            /\ storage[last.key] = last.value
            /\ \A k \in (DOMAIN storage) \ {last.key} :
                   storage[k] = last.pre_storage[k]
            /\ Len(order) = capacity
            /\ Cardinality(DOMAIN storage) = capacity
\* A new key has been inserted into a full cache of three keys.
C16_Witness ==
    /\ InsertDone /\ ~WasPresent /\ WasFull /\ capacity >= 3
    /\ ~contains(order, last.pre_order[Len(last.pre_order)])
    /\ order[2] = last.pre_order[1]

\* C17: insert(k, v) of a key k that is not present, into a cache whose order
\* is shorter than its capacity, removes no key, makes the size one larger
\* and puts k in front of the unchanged previous order; so n <= capacity
\* inserts of distinct keys into an empty cache give the reverse of the
\* insertion order.
C17_GrowsBelowCapacity ==
    /\ (InsertDone /\ ~WasPresent /\ WasBelow) =>
           /\ order = <<last.key>> \o last.pre_order
           /\ DOMAIN storage = (DOMAIN last.pre_storage) \cup {last.key}
           /\ \A k \in DOMAIN last.pre_storage :
                  storage[k] = last.pre_storage[k]
           /\ storage[last.key] = last.value
           /\ Len(order) = Len(last.pre_order) + 1
           /\ Cardinality(DOMAIN storage) =
                  Cardinality(DOMAIN last.pre_storage) + 1
    /\ (distinct_inserts.ok /\ Len(distinct_inserts.keys) <= capacity) =>
           order = Reverse(distinct_inserts.keys)
\* Three distinct keys have been inserted into an empty cache.
C17_Witness ==
    /\ InsertDone /\ ~WasPresent /\ WasBelow
    /\ distinct_inserts.ok
    /\ Len(distinct_inserts.keys) = 3
    /\ Len(order) = 3

\* C18: with capacity >= 1, in every reachable state order lists the present
\* keys from the most recently touched to the least recently touched (a
\* touch of k is an insert(k, _) or a get(k) hit); so a key that an insert
\* removes is the one touched longest ago among the keys cached at the call.
C18_OrderIsRecency ==
    capacity >= 1 =>
        /\ order = recency
        /\ InsertDone =>
               \A k \in (DOMAIN last.pre_storage) \ (DOMAIN storage) :
                   /\ Len(last.pre_recency) >= 1
                   /\ k = last.pre_recency[Len(last.pre_recency)]
\* An insert of a new key into a full cache of three keys, whose order was
\* not the order of their first inserts, has removed the least recently
\* touched key.
C18_Witness ==
    /\ capacity >= 3 /\ InsertDone /\ WasFull /\ ~WasPresent
    /\ last.pre_order[1] < last.pre_order[2]
    /\ last.pre_order[2] > last.pre_order[3]
    /\ (DOMAIN last.pre_storage) \ (DOMAIN storage)
           = {last.pre_recency[Len(last.pre_recency)]}
    /\ order = recency

\* C19: no insert and no get makes the number of cached entries smaller, so
\* a cache of capacity c >= 1 that holds c entries holds c entries in every
\* later state.
C19_SizeNeverDecreases ==
    (last.op \in {"insert", "get"} /\ last.ret # Panic) =>
        /\ Len(order) >= Len(last.pre_order)
        /\ Cardinality(DOMAIN storage) >= Cardinality(DOMAIN last.pre_storage)
        /\ (last.pre_capacity >= 1 /\ WasFull) => Len(order) = capacity

====
